---- MODULE Spec2Model ----
(***************************************************************************)
(* The session engines of tai: collect_sessions (players, sessions.py) and *)
(* _collect_world_sessions (worlds, worlds.py), with the interval store    *)
(* they write, the startup recovery, the presence query and its failures.  *)
(* One behaviour follows one engine (kind); the two share no state.        *)
(* Time is in abstract clock units; timestamps are integers.               *)
(***************************************************************************)
EXTENDS Integers, FiniteSets, Sequences, TLC

\* ----------------------------------------------------------------- bounds
MaxTime == 3
MaxRestarts == 1
\* session_threshold, in clock units (2700 s and 1800 s by default).
session_threshold == 1

\* The clock unit is the poll delay: delay = 60 s is one unit.
delay == 1

Entities == {"a", "b"}
Kinds == {"players", "worlds"}
\* Local UTC offsets of the host, in clock units.
TzOffsets == {0, 1}
\* How long the process may stay down before it is started again.
Downtimes == {0, 1}

VARIABLES
  kind,                   \* which engine this behaviour follows
  tzOffset,               \* the host's local UTC offset
  pc,                     \* "recover" | "query" | "sleep" | "crashed"
  clock,                  \* time.time()
  active_sessions,        \* entity -> start_ts
  suspended_sessions,     \* entity -> <<start_ts, suspended_ts>>
  prev_players,           \* prev_players / prev_worlds
  players,                \* the local `players`: <<>> unbound, <<S>> bound
  previous_online_count,  \* <<>> None, <<n>> otherwise
  is_first_iteration,     \* no poll has been processed in this run
  recovery,               \* "pending" | "ok" | "failed": this run's recovery
  sessions,               \* the sessions / world_sessions table: set of rows
  online,                 \* the online table's last row: <<>> or <<count, queried_at>>
  restarts,               \* process restarts so far
  closed,                 \* the rows of the intervals expiry has ended, as it
                          \* left them, each with the run that ended it
  trace                   \* what the last step did (the log events it emitted)

\* collect_worlds: the fetcher, its two consumers and the scheduler.
VARIABLES
  fetch_delay,            \* the delay of _fetch_worlds_data: 0 or positive
  fetch_pc,               \* where _fetch_worlds_data resumes, or "raised" |
                          \* "cancelled" once it has ended
  fetches,                \* requests issued so far
  fetched,                \* payloads fetched so far; the n-th payload is n
  receiving,              \* consumer -> "start" | "receive" | "ready", or
                          \* "raised" | "cancelled" once it has ended
  item,                   \* consumer -> the payload it holds (0: none)
  handled,                \* consumer -> payloads its loop body has processed
  runq,                   \* tasks to run in the next scheduler batch
  batch                   \* tasks of the current batch that have yet to run

engine == <<kind, tzOffset, pc, clock, active_sessions,
            suspended_sessions, prev_players, players, previous_online_count,
            is_first_iteration, recovery, sessions, online, restarts, closed,
            trace>>

pipe == <<fetch_delay, fetch_pc, fetches, fetched, receiving, item, handled,
          runq, batch>>

\* _collect_worlds_online: the loop body on the payloads it receives.
VARIABLES
  data,                   \* the payload of the last iteration: its 'worlds' list
  previous_worlds,        \* stripped name -> (players, static, ssmp)
  worlds_online,          \* the rows the last iteration inserted
  payloads,               \* payloads received so far
  online_pc               \* "receive" | "raised"

worlds_online_vars == <<data, previous_worlds, worlds_online, payloads, online_pc>>

\* main: its nursery of four tasks, collect_worlds being a nursery of three.
VARIABLES
  task,                   \* task -> "running" | "raised" | "cancelled"
  main_pc,                \* "nursery" | "except" | "finally" | "returned"
  main_nursery_crashed,   \* times 'main_nursery_crashed' was logged
  shutdowns,              \* times shutdown_telegram_bot has run
  _bot                    \* telegram_utils._bot is set

main_vars == <<task, main_pc, main_nursery_crashed, shutdowns, _bot>>

\* weekly_players_collection, collect_players and _fetch_players_page.
VARIABLES
  wall,                   \* datetime.now(), in half weeks
  players_table,          \* the players table of the main database
  temp_table,             \* the players table of the temporary database
  players_pc,             \* "select" | "sleep" | "start" | "first" | "page" |
                          \* "transfer" | "raised"
  last_collection_time,   \* <<>> None, <<t>> otherwise
  snapshot_time,          \* snapshot_time of the collection under way
  page,                   \* the page collect_players is at
  total_pages,            \* first['meta']['last_page']
  retry_attempt,          \* the attempt _fetch_players_page is at (0: not in it)
  requests,               \* requests the latest call of _fetch_players_page issued
  fetch_result,           \* how that call ended: "none" | "returned" |
                          \* "TimeoutError" | "KeyError"
  runs                    \* collections started so far

players_vars == <<wall, players_table, temp_table, players_pc,
                  last_collection_time, snapshot_time, page, total_pages,
                  retry_attempt, requests, fetch_result, runs>>

\* send_telegram_message and its callers.
VARIABLES
  send_pc,                \* "idle" | "sending"
  send_retry_attempt,     \* retry_attempt of send_telegram_message (0: not in it)
  waited,                 \* the delays slept in the call under way
  outcomes                \* how the calls so far ended, in order

telegram_vars == <<send_pc, send_retry_attempt, waited, outcomes>>

others == <<worlds_online_vars, main_vars, players_vars, telegram_vars>>

vars == <<engine, pipe, others>>

\* ------------------------------------------------------------ conversions
\* datetime.fromtimestamp(ts, tz=timezone.utc).replace(tzinfo=None): the
\* naive UTC datetime of an epoch; a stored datetime is its UTC seconds.
ToStored(ts) == ts

\* naive_datetime.timestamp(): Python reads a naive datetime as LOCAL time,
\* so the epoch it returns is the stored UTC reading minus the local offset.
FromStored(dt, off) == dt - off

\* ------------------------------------------------------------------ maps
EmptyMap == [e \in {} |-> 0]
Restrict(f, S) == [e \in S |-> f[e]]
Keys(f) == DOMAIN f

Row(e, s, t) == [name |-> e, session_start |-> s, session_end |-> t]
RowsOf(store, e) == {r \in store : r.name = e}

Max(S) == CHOOSE x \in S : \A y \in S : y <= x

\* --------------------------------------------------------------- recovery
\* HAVING MAX(session_end) > threshold_time, over the startup snapshot.
Recoverable(store, snapshot, now, thr) ==
  {e \in snapshot :
     /\ RowsOf(store, e) # {}
     /\ Max({r.session_end : r \in RowsOf(store, e)}) > ToStored(now - thr)}

\* ARG_MAX(session_start, session_end): the start of a row of greatest end
\* (any of them when several rows tie).
LatestStarts(store, e) ==
  LET ends == {r.session_end : r \in RowsOf(store, e)}
  IN {r.session_start : r \in {q \in RowsOf(store, e) : q.session_end = Max(ends)}}

\* The maps recovery can seed: active_sessions[e] = int(session_start.timestamp()).
RecoveredMaps(store, snapshot, now, thr, off) ==
  LET rec == Recoverable(store, snapshot, now, thr)
  IN {[e \in rec |-> FromStored(st[e], off)] :
        st \in {f \in [rec -> {r.session_start : r \in store}] :
                  \A e \in rec : f[e] \in LatestStarts(store, e)}}

\* ------------------------------------------------------------- one cycle
newly_connected(prev, cur) == cur \ prev
disconnected(prev, cur) == prev \ cur

\* Suspension: entities of disc that are active move to suspended at now.
\* (SuspendActiveKept: the entity is copied to suspended and never popped.)
SuspendActiveKept(act, disc) == act
SuspendActive(act, disc) == Restrict(act, Keys(act) \ disc)
SuspendSuspended(act, sus, disc, now) ==
  [e \in Keys(sus) \cup (disc \cap Keys(act)) |->
     IF e \in disc \cap Keys(act) THEN <<act[e], now>> ELSE sus[e]]

\* Newly connected: resume a suspended entity with its start, else start now.
Fresh(sus, conn) == conn \ Keys(sus)
ConnectActive(act, sus, conn, now) ==
  [e \in Keys(act) \cup conn |->
     IF e \in conn THEN (IF e \in Keys(sus) THEN sus[e][1] ELSE now) ELSE act[e]]
ConnectSuspended(sus, conn) == Restrict(sus, Keys(sus) \ conn)

\* INSERT INTO sessions (player, session_start, session_end) VALUES (?, now, now)
\* (InsertRowsNone: the session is tracked and its row never written.
\*  InsertRowsBackdated: the row started at the timestamp of one poll ago.)
InsertRowsNone(store, fresh, now) == store
InsertRowsBackdated(store, fresh, now) ==
  store \cup {Row(e, ToStored(now - delay), ToStored(now)) : e \in fresh}
InsertRows(store, fresh, now) ==
  store \cup {Row(e, ToStored(now), ToStored(now)) : e \in fresh}

\* Expiry: now - suspended_at > session_threshold.
\* (ExpiredFromStart: the threshold counted from the interval's start.
\*  ExpiredAtThreshold: the comparison taken as >=.)
ExpiredFromStart(sus, now, thr) == {e \in Keys(sus) : now - sus[e][1] > thr}
ExpiredAtThreshold(sus, now, thr) == {e \in Keys(sus) : now - sus[e][2] >= thr}
Expired(sus, now, thr) == {e \in Keys(sus) : now - sus[e][2] > thr}
ExpireSuspended(sus, now, thr) == Restrict(sus, Keys(sus) \ Expired(sus, now, thr))

\* UPDATE sessions SET session_end = now WHERE player = e AND session_start = act[e],
\* for the entities e of upd.
\* (UpdateRowsEvery: the WHERE clause without session_start.
\*  UpdateRowsRekey: the matched row rewritten whole, its start included.
\*  UpdateRowsStale: session_end written with the timestamp of one poll ago.
\*  UpdateRowsSkipped: pending_updates built and never executed.
\*  UpdateRowsExtend: SET session_end = session_end + delay.)
UpdateRowsSkipped(store, act, upd, now) == store
UpdateRowsExtend(store, act, upd, now) ==
  {IF r.name \in upd /\ r.session_start = ToStored(act[r.name])
     THEN [r EXCEPT !.session_end = r.session_end + delay]
     ELSE r : r \in store}
UpdateRowsStale(store, act, upd, now) ==
  {IF r.name \in upd /\ r.session_start = ToStored(act[r.name])
     THEN [r EXCEPT !.session_end = ToStored(now - delay)]
     ELSE r : r \in store}
UpdateRowsRekey(store, act, upd, now) ==
  {IF r.name \in upd /\ r.session_start = ToStored(act[r.name])
     THEN Row(r.name, ToStored(now), ToStored(now))
     ELSE r : r \in store}
UpdateRowsEvery(store, act, upd, now) ==
  {IF r.name \in upd THEN [r EXCEPT !.session_end = ToStored(now)] ELSE r :
     r \in store}
UpdateRows(store, act, upd, now) ==
  {IF r.name \in upd /\ r.session_start = ToStored(act[r.name])
     THEN [r EXCEPT !.session_end = ToStored(now)]
     ELSE r : r \in store}

\* The rows of the intervals that `del suspended_sessions[e]` ends for the
\* entities of gone: the rows keyed (e, start of the suspended interval).
ClosedBy(store, sus, gone) ==
  {r \in store : r.name \in gone /\ r.session_start = ToStored(sus[r.name][1])}

\* What a step did: its kind, how the presence query ended ("ok", "error",
\* "timeout", "none"), the exception that left the loop ("none" otherwise),
\* the entities of its session_started, session_renewed, session_suspended
\* and session_ended log events, and whether it logged online_count_changed.
Idle == [event |-> "idle", query |-> "none", raised |-> "none", started |-> {},
         renewed |-> {}, suspended |-> {}, ended |-> {}, sampled |-> FALSE]
Ev(name, q, exc) == [Idle EXCEPT !.event = name, !.query = q, !.raised = exc]

\* ------------------------------------------------------------------ Init
Consumers == {"online", "sessions"}
Tasks == {"fetch"} \cup Consumers

\* collect_worlds before its nursery has started a task.
PipeIdle ==
  /\ fetch_delay = 1
  /\ fetch_pc = "get"
  /\ fetches = 0
  /\ fetched = 0
  /\ receiving = [c \in Consumers |-> "start"]
  /\ item = [c \in Consumers |-> 0]
  /\ handled = [c \in Consumers |-> <<>>]
  /\ runq = {}
  /\ batch = {}

\* _collect_worlds_online before its first payload.
WorldsOnlineIdle ==
  /\ data = <<>>
  /\ previous_worlds = EmptyMap
  /\ worlds_online = {}
  /\ payloads = 0
  /\ online_pc = "receive"

\* main inside `async with trio.open_nursery()`, the four tasks started and
\* the bot initialised.
WorldsTasks == {"_fetch_worlds_data", "_collect_worlds_online",
                "_collect_world_sessions"}
TopTasks == {"collect_sessions", "weekly_players_collection",
             "daily_digest_task"}
MainIdle ==
  /\ task = [t \in TopTasks \cup WorldsTasks |-> "running"]
  /\ main_pc = "nursery"
  /\ main_nursery_crashed = 0
  /\ shutdowns = 0
  /\ _bot = TRUE

\* weekly_players_collection at the top of its loop, both tables empty.
PlayersIdle ==
  /\ wall = 0
  /\ players_table = {}
  /\ temp_table = {}
  /\ players_pc = "select"
  /\ last_collection_time = <<>>
  /\ snapshot_time = 0
  /\ page = 0
  /\ total_pages = 0
  /\ retry_attempt = 0
  /\ requests = 0
  /\ fetch_result = "none"
  /\ runs = 0

\* No call of send_telegram_message made yet.
TelegramIdle ==
  /\ send_pc = "idle"
  /\ send_retry_attempt = 0
  /\ waited = <<>>
  /\ outcomes = <<>>

OthersIdle ==
  /\ WorldsOnlineIdle
  /\ MainIdle
  /\ PlayersIdle
  /\ TelegramIdle

Init ==
  /\ kind \in Kinds
  /\ tzOffset \in TzOffsets
  /\ pc = IF kind = "players" THEN "recover" ELSE "query"
  /\ clock = 0
  /\ active_sessions = EmptyMap
  /\ suspended_sessions = EmptyMap
  /\ prev_players = {}
  /\ players = <<>>
  /\ previous_online_count = <<>>
  /\ is_first_iteration = TRUE
  /\ recovery = "pending"
  /\ sessions = {}
  /\ online = <<>>
  /\ restarts = 0
  /\ closed = {}
  /\ PipeIdle
  /\ OthersIdle
  /\ trace = Ev("boot", "none", "none")

\* An exception leaves the engine's coroutine: the loop is over and its
\* locals are gone. (The caller says what became of the run's recovery.)
Crash(q, exc) ==
  /\ pc' = "crashed"
  /\ active_sessions' = EmptyMap
  /\ suspended_sessions' = EmptyMap
  /\ prev_players' = {}
  /\ players' = <<>>
  /\ previous_online_count' = <<>>
  /\ trace' = Ev("raised", q, exc)
  /\ UNCHANGED <<pipe, others, kind, tzOffset, closed, clock, is_first_iteration, restarts>>

\* --- Online Count Logic --- (players only)
\* (OnlineChangedAlways: a row for every poll.)
OnlineChangedAlways(cur) == TRUE
OnlineChanged(cur) == <<Cardinality(cur)>> # previous_online_count
OnlineAfter(cur, now) ==
  IF OnlineChanged(cur) THEN <<Cardinality(cur), ToStored(now)>> ELSE online

\* The loop body from the deltas to prev = current, every write succeeding.
\* act0 is active_sessions as the body finds it, sample whether the body
\* samples the online count (collect_sessions does), thr the threshold.
CycleWith(cur, act0, nc, disc, sample, q, thr) ==
  LET now == clock
      act1 == SuspendActive(act0, disc)
      sus1 == SuspendSuspended(act0, suspended_sessions, disc, now)
      act2 == ConnectActive(act1, sus1, nc, now)
      sus2 == ConnectSuspended(sus1, nc)
      st2 == InsertRows(sessions, Fresh(sus1, nc), now)
      sus3 == ExpireSuspended(sus2, now, thr)
      st3 == UpdateRows(st2, act2, Keys(act2), now)
  IN /\ active_sessions' = act2
     /\ suspended_sessions' = sus3
     /\ sessions' = st3
     /\ prev_players' = cur
     /\ online' = IF sample THEN OnlineAfter(cur, now) ELSE online
     /\ previous_online_count' =
          IF sample THEN <<Cardinality(cur)>> ELSE previous_online_count
     /\ is_first_iteration' = FALSE
     /\ pc' = "sleep"
     /\ closed' = closed \cup
          {[row |-> r, run |-> restarts] :
             r \in ClosedBy(st3, sus2, Expired(sus2, now, thr))}
     /\ trace' = [event |-> "cycle", query |-> q, raised |-> "none",
                  started |-> Fresh(sus1, nc),
                  renewed |-> nc \cap Keys(sus1),
                  suspended |-> disc \cap Keys(act0),
                  ended |-> Expired(sus2, now, thr),
                  sampled |-> sample /\ OnlineChanged(cur)]
     /\ UNCHANGED <<pipe, others, kind, tzOffset, clock, restarts>>

CycleOk(cur, act0, nc, disc, sample, q) ==
  CycleWith(cur, act0, nc, disc, sample, q, session_threshold)

\* The same body with a store write raising: the INSERT of the online row,
\* the connection or an INSERT of the newly connected block, the connection
\* or the executemany of the update block. Nothing catches it.
CycleWriteFail(cur, act0, nc, disc, sample, q) ==
  LET now == clock
      act1 == SuspendActive(act0, disc)
      sus1 == SuspendSuspended(act0, suspended_sessions, disc, now)
      act2 == ConnectActive(act1, sus1, nc, now)
      fresh == Fresh(sus1, nc)
      st2 == InsertRows(sessions, fresh, now)
  IN /\ \/ /\ sample /\ OnlineChanged(cur)
           /\ UNCHANGED <<sessions, online>>
        \/ /\ nc # {}
           /\ \E done \in SUBSET nc :
                /\ done = {} \/ fresh \ done # {}
                /\ sessions' = InsertRows(sessions, fresh \cap done, now)
           /\ online' = IF sample THEN OnlineAfter(cur, now) ELSE online
        \/ /\ Keys(act2) # {}
           /\ \E upd \in SUBSET Keys(act2) :
                /\ upd # Keys(act2)
                /\ sessions' = UpdateRows(st2, act2, upd, now)
           /\ online' = IF sample THEN OnlineAfter(cur, now) ELSE online
     /\ Crash(q, "write")

\* ------------------------------------------------- collect_sessions steps
\* --- Startup Recovery Step ---
\* (RecoverDeferred: the loop entered with the recovery block left out.)
RecoverDeferred ==
  /\ kind = "players" /\ pc = "recover"
  /\ pc' = "query"
  /\ trace' = Ev("boot", "none", "none")
  /\ UNCHANGED <<pipe, others, kind, tzOffset, closed, clock, active_sessions,
                 suspended_sessions, prev_players, players,
                 previous_online_count, is_first_iteration, recovery, sessions,
                 online, restarts>>
Recover ==
  /\ kind = "players" /\ pc = "recover"
  /\ \E S \in SUBSET Entities :
       /\ prev_players' = S
       /\ \E m \in RecoveredMaps(sessions, S, clock, session_threshold, tzOffset) :
            active_sessions' = m
  /\ pc' = "query"
  /\ recovery' = "ok"
  /\ trace' = Ev("recovered", "ok", "none")
  /\ UNCHANGED <<pipe, others, kind, tzOffset, closed, clock, suspended_sessions, players,
                 previous_online_count, is_first_iteration, sessions, online,
                 restarts>>

\* except Exception: log 'session_recovery_failed'; initial_players = set()
RecoverFail ==
  /\ kind = "players" /\ pc = "recover"
  /\ prev_players' = {}
  /\ pc' = "query"
  /\ recovery' = "failed"
  /\ trace' = Ev("recovery_failed", "none", "none")
  /\ UNCHANGED <<pipe, others, kind, tzOffset, closed, clock, active_sessions, suspended_sessions,
                 players, previous_online_count, is_first_iteration, sessions,
                 online, restarts>>

\* The query returns S within the timeout and the cycle is processed.
PollOk ==
  /\ kind = "players" /\ pc = "query"
  /\ \E S \in SUBSET Entities :
       /\ players' = <<S>>
       /\ CycleOk(S, active_sessions, newly_connected(prev_players, S),
                  disconnected(prev_players, S), TRUE, "ok")
  /\ UNCHANGED recovery

PollWriteFail ==
  /\ kind = "players" /\ pc = "query"
  /\ \E S \in SUBSET Entities :
       CycleWriteFail(S, active_sessions, newly_connected(prev_players, S),
                      disconnected(prev_players, S), TRUE, "ok")
  /\ UNCHANGED recovery

\* (PollErrorAsAbsent: a failed query read as an empty snapshot.)
PollErrorAsAbsent ==
  /\ kind = "players" /\ pc = "query"
  /\ CycleOk({}, active_sessions, newly_connected(prev_players, {}),
             disconnected(prev_players, {}), TRUE, "error")
  /\ UNCHANGED <<players, recovery>>

\* except Exception: log 'failed_to_query_server_players'; sleep; continue
PollError ==
  /\ kind = "players" /\ pc = "query"
  /\ pc' = "sleep"
  /\ trace' = Ev("skipped", "error", "none")
  /\ UNCHANGED <<pipe, others, kind, tzOffset, closed, clock, active_sessions, suspended_sessions,
                 prev_players, players, previous_online_count,
                 is_first_iteration, recovery, sessions, online, restarts>>

\* trio.move_on_after(10) expires: the scope swallows the cancellation at
\* the end of the with block, so `except trio.Cancelled` does not run and
\* the body goes on with `players` as the last successful query left it.
PollTimeout ==
  /\ kind = "players" /\ pc = "query"
  /\ players # <<>>
  /\ CycleOk(players[1], active_sessions,
             newly_connected(prev_players, players[1]),
             disconnected(prev_players, players[1]), TRUE, "timeout")
  /\ UNCHANGED <<players, recovery>>

PollTimeoutWriteFail ==
  /\ kind = "players" /\ pc = "query"
  /\ players # <<>>
  /\ CycleWriteFail(players[1], active_sessions,
                    newly_connected(prev_players, players[1]),
                    disconnected(prev_players, players[1]), TRUE, "timeout")
  /\ UNCHANGED recovery

\* The same before any query has succeeded: len(players) reads an unbound
\* local and raises UnboundLocalError out of the loop.
PollTimeoutUnbound ==
  /\ kind = "players" /\ pc = "query"
  /\ players = <<>>
  /\ Crash("timeout", "unbound")
  /\ UNCHANGED <<sessions, online, recovery>>

\* await trio.sleep(delay)
SleepUntil(last) ==
  /\ pc = "sleep"
  /\ clock + delay <= last
  /\ clock' = clock + delay
  /\ pc' = "query"
  /\ trace' = Idle
  /\ UNCHANGED <<pipe, others, kind, tzOffset, closed, active_sessions, suspended_sessions,
                 prev_players, players, previous_online_count,
                 is_first_iteration, recovery, sessions, online, restarts>>

Sleep == SleepUntil(MaxTime)

\* ------------------------------------------ _collect_world_sessions steps
\* _fetch_worlds_data: except httpx.HTTPError: log, sleep, continue.
WorldFetchFail ==
  /\ kind = "worlds" /\ pc = "query"
  /\ pc' = "sleep"
  /\ trace' = Ev("skipped", "error", "none")
  /\ UNCHANGED <<pipe, others, kind, tzOffset, closed, clock, active_sessions, suspended_sessions,
                 prev_players, players, previous_online_count,
                 is_first_iteration, recovery, sessions, online, restarts>>

\* A payload with the worlds S is received and processed; the first one
\* runs the recovery query inside the same iteration.
WorldCycle ==
  /\ kind = "worlds" /\ pc = "query"
  /\ \E S \in SUBSET Entities :
       IF is_first_iteration
       THEN \E m \in RecoveredMaps(sessions, S, clock, session_threshold, tzOffset) :
              CycleOk(S, m, S \ Keys(m), disconnected(prev_players, S),
                      FALSE, "ok")
       ELSE CycleOk(S, active_sessions, newly_connected(prev_players, S),
                    disconnected(prev_players, S), FALSE, "ok")
  /\ recovery' = IF is_first_iteration THEN "ok" ELSE recovery
  /\ UNCHANGED players

WorldWriteFail ==
  /\ kind = "worlds" /\ pc = "query"
  /\ \E S \in SUBSET Entities :
       IF is_first_iteration
       THEN \E m \in RecoveredMaps(sessions, S, clock, session_threshold, tzOffset) :
              CycleWriteFail(S, m, S \ Keys(m), disconnected(prev_players, S),
                             FALSE, "ok")
       ELSE CycleWriteFail(S, active_sessions, newly_connected(prev_players, S),
                           disconnected(prev_players, S), FALSE, "ok")
  /\ recovery' = IF is_first_iteration THEN "ok" ELSE recovery

\* The recovery query of the first iteration raises (get_connection or
\* con.execute); no try surrounds it.
WorldRecoveryFail ==
  /\ kind = "worlds" /\ pc = "query"
  /\ is_first_iteration
  /\ \E S \in SUBSET Entities : S # {}
  /\ pc' = "crashed"
  /\ recovery' = "failed"
  /\ trace' = Ev("raised", "ok", "recovery")
  /\ UNCHANGED <<pipe, others, kind, tzOffset, closed, clock, active_sessions, suspended_sessions,
                 prev_players, players, previous_online_count,
                 is_first_iteration, sessions, online, restarts>>

\* ---------------------------------------------------------------- restart
\* The process is started again (after a crash or a stop): the tables stay,
\* the engine's locals start afresh.
RestartWithin(most) ==
  /\ pc \in {"sleep", "crashed"}
  /\ restarts < most
  /\ restarts' = restarts + 1
  /\ \E d \in Downtimes :
       /\ clock + d <= MaxTime
       /\ clock' = clock + d
  /\ pc' = IF kind = "players" THEN "recover" ELSE "query"
  /\ active_sessions' = EmptyMap
  /\ suspended_sessions' = EmptyMap
  /\ prev_players' = {}
  /\ players' = <<>>
  /\ previous_online_count' = <<>>
  /\ is_first_iteration' = TRUE
  /\ recovery' = "pending"
  /\ trace' = Ev("boot", "none", "none")
  /\ UNCHANGED <<pipe, others, kind, tzOffset, closed, sessions, online>>

Restart == RestartWithin(MaxRestarts)

Next ==
  \/ Recover
  \/ RecoverFail
  \/ PollOk
  \/ PollWriteFail
  \/ PollError
  \/ PollTimeout
  \/ PollTimeoutWriteFail
  \/ PollTimeoutUnbound
  \/ Sleep
  \/ WorldFetchFail
  \/ WorldCycle
  \/ WorldWriteFail
  \/ WorldRecoveryFail
  \/ Restart

Spec == Init /\ [][Next]_vars

\* ------------------------------------------------- a host far from UTC
\* The world engine on a host whose UTC offset is larger than the gap
\* between two intervals of a world, restarted once more.
TzOffsetsFar == {3}

InitFar ==
  /\ kind = "worlds"
  /\ tzOffset \in TzOffsetsFar
  /\ pc = "query"
  /\ clock = 0
  /\ active_sessions = EmptyMap
  /\ suspended_sessions = EmptyMap
  /\ prev_players = {}
  /\ players = <<>>
  /\ previous_online_count = <<>>
  /\ is_first_iteration = TRUE
  /\ recovery = "pending"
  /\ sessions = {}
  /\ online = <<>>
  /\ restarts = 0
  /\ closed = {}
  /\ PipeIdle
  /\ OthersIdle
  /\ trace = Ev("boot", "none", "none")

NextFar ==
  \/ Sleep
  \/ WorldFetchFail
  \/ WorldCycle
  \/ WorldWriteFail
  \/ WorldRecoveryFail
  \/ RestartWithin(MaxRestarts + 1)

SpecFar == InitFar /\ [][NextFar]_vars

\* ------------------------------------------------- the scenario of Alice
\* collect_sessions with session_threshold = 1800 s and a poll every 60 s
\* (one clock unit): the snapshot is empty at 0, Alice ("a") is in the
\* snapshots of 60 and 180 and in no other; the other player is absent up
\* to 180 and comes and goes freely afterwards. The run ends at 2160 s.
Seconds(units) == 60 * units
ScenarioThreshold == 1800 \div 60
ScenarioEnd == 2160 \div 60

InitAlice ==
  /\ kind = "players"
  /\ tzOffset = 0
  /\ pc = "query"
  /\ clock = 0
  /\ active_sessions = EmptyMap
  /\ suspended_sessions = EmptyMap
  /\ prev_players = {}
  /\ players = <<>>
  /\ previous_online_count = <<>>
  /\ is_first_iteration = TRUE
  /\ recovery = "ok"
  /\ sessions = {}
  /\ online = <<>>
  /\ restarts = 0
  /\ closed = {}
  /\ PipeIdle
  /\ OthersIdle
  /\ trace = Ev("recovered", "ok", "none")

AlicePoll ==
  /\ kind = "players" /\ pc = "query"
  /\ \E S \in SUBSET Entities :
       /\ "a" \in S <=> Seconds(clock) \in {60, 180}
       /\ Seconds(clock) <= 180 => "b" \notin S
       /\ players' = <<S>>
       /\ CycleWith(S, active_sessions, newly_connected(prev_players, S),
                    disconnected(prev_players, S), TRUE, "ok", ScenarioThreshold)
  /\ UNCHANGED recovery

NextAlice ==
  \/ AlicePoll
  \/ SleepUntil(ScenarioEnd)

SpecAlice == InitAlice /\ [][NextAlice]_vars

\* ---------------------------------------------------------- collect_worlds
\* The three tasks of collect_worlds under trio's scheduler: a task runs
\* from one checkpoint to the next without interruption; the tasks that are
\* runnable form a batch, each task of a batch runs once, in any order, and
\* a task made runnable meanwhile runs in the next batch. The loop bodies
\* of both consumers hold no await: a consumer runs from one receive to the
\* next in one piece. Payloads are numbered in fetch order.
MaxFetches == 3
FetchDelays == {0, 1}

InitPipe ==
  /\ kind = "worlds"
  /\ tzOffset = 0
  /\ pc = "query"
  /\ clock = 0
  /\ active_sessions = EmptyMap
  /\ suspended_sessions = EmptyMap
  /\ prev_players = {}
  /\ players = <<>>
  /\ previous_online_count = <<>>
  /\ is_first_iteration = TRUE
  /\ recovery = "pending"
  /\ sessions = {}
  /\ online = <<>>
  /\ restarts = 0
  /\ closed = {}
  /\ trace = Ev("boot", "none", "none")
  /\ fetch_delay \in FetchDelays
  /\ fetch_pc = "get"
  /\ fetches = 0
  /\ fetched = 0
  /\ receiving = [c \in Consumers |-> "start"]
  /\ item = [c \in Consumers |-> 0]
  /\ handled = [c \in Consumers |-> <<>>]
  /\ runq = Tasks
  /\ batch = {}
  /\ OthersIdle

\* A task of the nursery has raised: the nursery's cancel scope is cancelled.
Raised ==
  \/ fetch_pc = "raised"
  \/ \E c \in Consumers : receiving[c] = "raised"

\* The tasks of the nursery that have not ended.
Live ==
  {t \in Tasks : IF t = "fetch" THEN fetch_pc \notin {"raised", "cancelled"}
                 ELSE receiving[t] \notin {"raised", "cancelled"}}

\* The scheduler takes the runnable tasks as its next batch.
StartBatch ==
  /\ batch = {} /\ runq # {}
  /\ batch' = runq
  /\ runq' = {}
  /\ UNCHANGED <<engine, others, fetch_delay, fetch_pc, fetches, fetched, receiving,
                 item, handled>>

\* await sender.send(data) on a channel of capacity 0: a consumer blocked in
\* receive takes the value and both tasks become runnable; with no consumer
\* waiting the fetcher blocks in send.
Send(c, value, sent, blocked) ==
  IF receiving[c] = "receive"
  THEN /\ item' = [item EXCEPT ![c] = value]
       /\ receiving' = [receiving EXCEPT ![c] = "ready"]
       /\ fetch_pc' = sent
       /\ runq' = runq \cup {c, "fetch"}
  ELSE /\ fetch_pc' = blocked
       /\ UNCHANGED <<item, receiving, runq>>

\* response = await client.get(url, ..., timeout=8): the request goes out.
FetchIssue ==
  /\ ~Raised
  /\ "fetch" \in batch /\ fetch_pc = "get"
  /\ fetches < MaxFetches
  /\ batch' = batch \ {"fetch"}
  /\ fetches' = fetches + 1
  /\ fetch_pc' = "await_get"
  /\ UNCHANGED <<engine, others, fetch_delay, fetched, receiving, item, handled, runq>>

\* The request ends: with a payload; with an httpx.HTTPError (transport
\* error, timeout, raise_for_status); or with a body response.json() cannot
\* decode, which raises a ValueError that is no httpx.HTTPError.
FetchResponse ==
  /\ ~Raised
  /\ batch = {} /\ fetch_pc = "await_get"
  /\ fetch_pc' \in {"respond_ok", "respond_err", "respond_bad"}
  /\ runq' = runq \cup {"fetch"}
  /\ UNCHANGED <<engine, others, fetch_delay, fetches, fetched, receiving, item,
                 handled, batch>>

\* await online_worlds_sender.send(data)
FetchSendOnline ==
  /\ ~Raised
  /\ "fetch" \in batch /\ fetch_pc = "respond_ok"
  /\ batch' = batch \ {"fetch"}
  /\ fetched' = fetched + 1
  /\ Send("online", fetched + 1, "sent_online", "send_online")
  /\ UNCHANGED <<engine, others, fetch_delay, fetches, handled>>

\* await world_sessions_sender.send(data)
\* (FetchSendSessionsSkipped: the payload goes to the online channel only.)
FetchSendSessionsSkipped ==
  /\ ~Raised
  /\ "fetch" \in batch /\ fetch_pc = "sent_online"
  /\ batch' = batch \ {"fetch"}
  /\ fetch_pc' = "sent_sessions"
  /\ runq' = runq \cup {"fetch"}
  /\ UNCHANGED <<engine, others, fetch_delay, fetches, fetched, receiving, item, handled>>
FetchSendSessions ==
  /\ ~Raised
  /\ "fetch" \in batch /\ fetch_pc = "sent_online"
  /\ batch' = batch \ {"fetch"}
  /\ Send("sessions", fetched, "sent_sessions", "send_sessions")
  /\ UNCHANGED <<engine, others, fetch_delay, fetches, fetched, handled>>

\* await trio.sleep(delay): a checkpoint when delay is 0, a timer otherwise.
SleepFetch ==
  /\ batch' = batch \ {"fetch"}
  /\ IF fetch_delay = 0
     THEN fetch_pc' = "get" /\ runq' = runq \cup {"fetch"}
     ELSE fetch_pc' = "sleeping" /\ UNCHANGED runq
  /\ UNCHANGED <<engine, others, fetch_delay, fetches, fetched, receiving, item, handled>>

FetchSleep ==
  /\ ~Raised
  /\ "fetch" \in batch /\ fetch_pc = "sent_sessions"
  /\ SleepFetch

\* except httpx.HTTPError: log 'failed_to_fetch_worlds_data'; sleep; continue
FetchFailed ==
  /\ ~Raised
  /\ "fetch" \in batch /\ fetch_pc = "respond_err"
  /\ SleepFetch

\* data = response.json() raises outside the except clause: the exception
\* leaves _fetch_worlds_data, and the nursery cancels the tasks still alive,
\* which wakes those that are blocked.
FetchDecodeError ==
  /\ ~Raised
  /\ "fetch" \in batch /\ fetch_pc = "respond_bad"
  /\ batch' = batch \ {"fetch"}
  /\ fetch_pc' = "raised"
  /\ runq' = runq \cup (Live \ {"fetch"})
  /\ UNCHANGED <<engine, others, fetch_delay, fetches, fetched, receiving, item, handled>>

\* trio.Cancelled is raised in the fetcher at its checkpoint (get, send or
\* sleep); a send that has not handed its value over sends nothing.
FetchCancelled ==
  /\ Raised
  /\ "fetch" \in batch
  /\ batch' = batch \ {"fetch"}
  /\ fetch_pc' = "cancelled"
  /\ UNCHANGED <<engine, others, fetch_delay, fetches, fetched, receiving, item, handled,
                 runq>>

\* The timer of trio.sleep(delay) expires.
TimerFires ==
  /\ ~Raised
  /\ batch = {} /\ fetch_pc = "sleeping"
  /\ fetch_pc' = "get"
  /\ runq' = runq \cup {"fetch"}
  /\ UNCHANGED <<engine, others, fetch_delay, fetches, fetched, receiving, item,
                 handled, batch>>

\* (ConsumeAwaiting: a loop body with a checkpoint in it, as with a store
\*  call that is awaited: the body starts in one batch and ends in a later.)
ConsumeAwaiting(c, blocked, sent) ==
  /\ ~Raised
  /\ c \in batch
  /\ batch' = batch \ {c}
  /\ IF receiving[c] = "ready"
     THEN /\ receiving' = [receiving EXCEPT ![c] = "busy"]
          /\ runq' = runq \cup {c}
          /\ UNCHANGED <<handled, item, fetch_pc>>
     ELSE /\ handled' = IF receiving[c] = "busy"
                        THEN [handled EXCEPT ![c] = Append(@, item[c])]
                        ELSE handled
          /\ IF fetch_pc = blocked
             THEN /\ item' = [item EXCEPT ![c] = fetched]
                  /\ receiving' = [receiving EXCEPT ![c] = "ready"]
                  /\ fetch_pc' = sent
                  /\ runq' = runq \cup {c, "fetch"}
             ELSE /\ item' = [item EXCEPT ![c] = 0]
                  /\ receiving' = [receiving EXCEPT ![c] = "receive"]
                  /\ UNCHANGED <<fetch_pc, runq>>
  /\ UNCHANGED <<engine, others, fetch_delay, fetches, fetched>>

\* async for data in receiver: the consumer c runs the loop body on the
\* payload it holds, if any, and receives again: it takes the value of a
\* fetcher blocked in send on its channel, or blocks.
Consume(c, blocked, sent) ==
  /\ ~Raised
  /\ c \in batch
  /\ batch' = batch \ {c}
  /\ handled' = IF receiving[c] = "ready"
                THEN [handled EXCEPT ![c] = Append(@, item[c])]
                ELSE handled
  /\ IF fetch_pc = blocked
     THEN /\ item' = [item EXCEPT ![c] = fetched]
          /\ receiving' = [receiving EXCEPT ![c] = "ready"]
          /\ fetch_pc' = sent
          /\ runq' = runq \cup {c, "fetch"}
     ELSE /\ item' = [item EXCEPT ![c] = 0]
          /\ receiving' = [receiving EXCEPT ![c] = "receive"]
          /\ UNCHANGED <<fetch_pc, runq>>
  /\ UNCHANGED <<engine, others, fetch_delay, fetches, fetched>>

CollectOnline == Consume("online", "send_online", "sent_online")
CollectSessions == Consume("sessions", "send_sessions", "sent_sessions")

\* The loop body of consumer c raises on the payload it holds (get_connection
\* gives up, a store statement fails, the payload has no 'worlds'): nothing
\* catches it, and the nursery cancels the tasks still alive.
ConsumeRaises(c) ==
  /\ c \in batch /\ receiving[c] = "ready"
  /\ batch' = batch \ {c}
  /\ receiving' = [receiving EXCEPT ![c] = "raised"]
  /\ runq' = runq \cup (Live \ {c})
  /\ UNCHANGED <<engine, others, fetch_delay, fetch_pc, fetches, fetched, item, handled>>

CollectOnlineRaises == ConsumeRaises("online")
CollectSessionsRaises == ConsumeRaises("sessions")

\* trio.Cancelled is raised in consumer c at its next receive; a payload it
\* was handed before the cancellation is processed first (the loop body has
\* no checkpoint).
ConsumeCancelled(c) ==
  /\ Raised
  /\ c \in batch
  /\ batch' = batch \ {c}
  /\ handled' = IF receiving[c] = "ready"
                THEN [handled EXCEPT ![c] = Append(@, item[c])]
                ELSE handled
  /\ item' = [item EXCEPT ![c] = 0]
  /\ receiving' = [receiving EXCEPT ![c] = "cancelled"]
  /\ UNCHANGED <<engine, others, fetch_delay, fetch_pc, fetches, fetched, runq>>

CollectOnlineCancelled == ConsumeCancelled("online")
CollectSessionsCancelled == ConsumeCancelled("sessions")

NextPipe ==
  \/ StartBatch
  \/ FetchIssue
  \/ FetchResponse
  \/ FetchSendOnline
  \/ FetchSendSessions
  \/ FetchSleep
  \/ FetchFailed
  \/ TimerFires
  \/ CollectOnline
  \/ CollectSessions
  \/ FetchDecodeError
  \/ FetchCancelled
  \/ CollectOnlineRaises
  \/ CollectSessionsRaises
  \/ CollectOnlineCancelled
  \/ CollectSessionsCancelled

SpecPipe == InitPipe /\ [][NextPipe]_vars

\* -------------------------------------------------- _collect_worlds_online
\* The loop body of _collect_worlds_online, payload after payload. A raw
\* world name is a sequence of pieces, a piece being text or a colour code.
MaxPayloads == 2

HexCodes == {"{ff0000}"}
RawNames == {<<"w">>, <<"{ff0000}", "w">>, <<"v">>}
PlayerCounts == {1, 2}
Flags == {<<FALSE, FALSE>>, <<TRUE, FALSE>>, <<FALSE, TRUE>>}

\* re.sub(r'\{([0-9a-fA-F]{6})\}', '', text)
_strip_hex_codes(text) == SelectSeq(text, LAMBDA piece : piece \notin HexCodes)

\* An entry of data['worlds'].
Worlds ==
  {[name |-> n, players |-> k, static |-> f[1], ssmp |-> f[2]] :
     n \in RawNames, k \in PlayerCounts, f \in Flags}

\* The payloads: lists of at most two entries.
Payloads == {<<>>} \cup {<<w>> : w \in Worlds} \cup {<<w, x>> : w, x \in Worlds}

WorldData(world) ==
  [players |-> world.players, static |-> world.static, ssmp |-> world.ssmp]

\* The loop that builds current_worlds: an entry replaces the one kept for
\* its stripped name only when it has more players.
RECURSIVE CurrentWorlds(_, _)
CurrentWorlds(worlds, current_worlds) ==
  IF worlds = <<>> THEN current_worlds
  ELSE LET world == Head(worlds)
           world_name == _strip_hex_codes(world.name)
           world_data == WorldData(world)
       IN CurrentWorlds(Tail(worlds),
            IF \/ world_name \notin DOMAIN current_worlds
               \/ world_data.players > current_worlds[world_name].players
            THEN [n \in DOMAIN current_worlds \cup {world_name} |->
                    IF n = world_name THEN world_data ELSE current_worlds[n]]
            ELSE current_worlds)

\* previous_worlds.get(world_name) != world_data
\* (SavedByPlayers: only the player count is compared.)
SavedByPlayers(previous, current) ==
  {n \in DOMAIN current :
     n \notin DOMAIN previous \/ previous[n].players # current[n].players}
Saved(previous, current) ==
  {n \in DOMAIN current : n \notin DOMAIN previous \/ previous[n] # current[n]}

\* INSERT INTO worlds_online (name, players, static, ssmp, saved_at)
OnlineRow(world_name, world_data, saved_at) ==
  [name |-> world_name, players |-> world_data.players,
   static |-> world_data.static, ssmp |-> world_data.ssmp, saved_at |-> saved_at]

InitOnline ==
  /\ kind = "worlds"
  /\ tzOffset = 0
  /\ pc = "query"
  /\ clock = 0
  /\ active_sessions = EmptyMap
  /\ suspended_sessions = EmptyMap
  /\ prev_players = {}
  /\ players = <<>>
  /\ previous_online_count = <<>>
  /\ is_first_iteration = TRUE
  /\ recovery = "pending"
  /\ sessions = {}
  /\ online = <<>>
  /\ restarts = 0
  /\ closed = {}
  /\ trace = Ev("boot", "none", "none")
  /\ PipeIdle
  /\ OthersIdle

\* One iteration of `async for data in receiver`, every statement succeeding.
WorldsOnlineBody ==
  /\ online_pc = "receive"
  /\ payloads < MaxPayloads
  /\ \E d \in Payloads :
       LET current_worlds == CurrentWorlds(d, EmptyMap)
       IN /\ data' = d
          /\ worlds_online' =
               IF current_worlds # previous_worlds
               THEN {OnlineRow(n, current_worlds[n], payloads + 1) :
                       n \in Saved(previous_worlds, current_worlds)}
               ELSE {}
          /\ previous_worlds' =
               IF current_worlds # previous_worlds THEN current_worlds
               ELSE previous_worlds
  /\ payloads' = payloads + 1
  /\ UNCHANGED <<engine, pipe, main_vars, players_vars, telegram_vars, online_pc>>

\* The iteration raises in its store block: get_connection gives up, or an
\* INSERT fails after some of the rows were written. Nothing catches it.
WorldsOnlineRaises ==
  /\ online_pc = "receive"
  /\ payloads < MaxPayloads
  /\ \E d \in Payloads :
       LET current_worlds == CurrentWorlds(d, EmptyMap)
           rows == {OnlineRow(n, current_worlds[n], payloads + 1) :
                      n \in Saved(previous_worlds, current_worlds)}
       IN /\ current_worlds # previous_worlds
          /\ data' = d
          /\ \E written \in SUBSET rows :
               /\ written # rows \/ rows = {}
               /\ worlds_online' = written
  /\ payloads' = payloads + 1
  /\ online_pc' = "raised"
  /\ UNCHANGED <<engine, pipe, main_vars, players_vars, telegram_vars, previous_worlds>>

NextOnline ==
  \/ WorldsOnlineBody
  \/ WorldsOnlineRaises

SpecOnline == InitOnline /\ [][NextOnline]_vars

\* --------------------------------------------------------------------- main
\* The nursery of main and, inside its task collect_worlds, the nursery of
\* collect_worlds. None of the tasks returns; a task ends by an exception
\* that nothing in it catches, or by trio.Cancelled at a checkpoint once the
\* cancel scope of a nursery around it is cancelled.
Ended(t) == task[t] # "running"

\* collect_worlds has left its nursery block: its three tasks have ended.
\* It raises (an exception group) when one of them raised, and is cancelled
\* otherwise.
WorldsEnded == \A t \in WorldsTasks : Ended(t)
WorldsRaised == WorldsEnded /\ \E t \in WorldsTasks : task[t] = "raised"

\* A child of main's nursery has raised: the nursery cancels its scope.
MainCancelled == WorldsRaised \/ \E t \in TopTasks : task[t] = "raised"

\* The cancel scopes around task t, is one of them cancelled?
CancelRequested(t) ==
  \/ MainCancelled
  \/ t \in WorldsTasks /\ \E u \in WorldsTasks : task[u] = "raised"

InitMain ==
  /\ kind = "worlds"
  /\ tzOffset = 0
  /\ pc = "query"
  /\ clock = 0
  /\ active_sessions = EmptyMap
  /\ suspended_sessions = EmptyMap
  /\ prev_players = {}
  /\ players = <<>>
  /\ previous_online_count = <<>>
  /\ is_first_iteration = TRUE
  /\ recovery = "pending"
  /\ sessions = {}
  /\ online = <<>>
  /\ restarts = 0
  /\ closed = {}
  /\ trace = Ev("boot", "none", "none")
  /\ PipeIdle
  /\ OthersIdle

\* Task t raises an exception that nothing in it catches.
TaskRaises ==
  /\ main_pc = "nursery"
  /\ \E t \in TopTasks \cup WorldsTasks :
       /\ task[t] = "running"
       /\ task' = [task EXCEPT ![t] = "raised"]
  /\ UNCHANGED <<engine, pipe, worlds_online_vars, players_vars, telegram_vars, main_pc,
                 main_nursery_crashed, shutdowns, _bot>>

\* Task t reaches a checkpoint inside a cancelled scope: trio.Cancelled,
\* which `except Exception` does not catch, ends it.
TaskCancelled ==
  /\ main_pc = "nursery"
  /\ \E t \in TopTasks \cup WorldsTasks :
       /\ task[t] = "running"
       /\ CancelRequested(t)
       /\ task' = [task EXCEPT ![t] = "cancelled"]
  /\ UNCHANGED <<engine, pipe, worlds_online_vars, players_vars, telegram_vars, main_pc,
                 main_nursery_crashed, shutdowns, _bot>>

\* All children have ended: the nursery block raises what they raised.
\* except Exception as e: log.critical('main_nursery_crashed', error=e)
MainExcept ==
  /\ main_pc = "nursery"
  /\ WorldsEnded /\ \A t \in TopTasks : Ended(t)
  /\ main_nursery_crashed' = main_nursery_crashed + 1
  /\ main_pc' = "finally"
  /\ UNCHANGED <<engine, pipe, worlds_online_vars, players_vars, telegram_vars, task, shutdowns, _bot>>

\* finally: await shutdown_telegram_bot(); log 'tai_shutting_down'
\* (MainFinallyBare: a finally block that only logs.)
MainFinallyBare ==
  /\ main_pc = "finally"
  /\ main_pc' = "returned"
  /\ UNCHANGED <<engine, pipe, worlds_online_vars, players_vars, telegram_vars, task, main_nursery_crashed,
                 shutdowns, _bot>>
MainFinally ==
  /\ main_pc = "finally"
  /\ shutdowns' = shutdowns + 1
  /\ _bot' = FALSE
  /\ main_pc' = "returned"
  /\ UNCHANGED <<engine, pipe, worlds_online_vars, players_vars, telegram_vars, task, main_nursery_crashed>>

NextMain ==
  \/ TaskRaises
  \/ TaskCancelled
  \/ MainExcept
  \/ MainFinally

SpecMain == InitMain /\ [][NextMain]_vars

\* The scheduler runs every task that can run, and main goes on.
SpecMainFair ==
  /\ SpecMain
  /\ WF_vars(TaskCancelled) /\ WF_vars(MainExcept) /\ WF_vars(MainFinally)

\* ---------------------------------------------- weekly_players_collection
\* weekly_players_collection with collect_players and _fetch_players_page
\* inlined. The wall clock counts half weeks.
MaxWall == 5
MaxRuns == 2
MaxPages == 2

\* timedelta(weeks=1)
Week == 2
max_retry_attempts == 5

\* A row of a players table: one per page fetched, with the snapshot_time the
\* collection stamped on it and the collection that fetched it.
PlayerRow(t, p, run) == [snapshot_time |-> t, page |-> p, run |-> run]

InitPlayers ==
  /\ kind = "players"
  /\ tzOffset = 0
  /\ pc = "recover"
  /\ clock = 0
  /\ active_sessions = EmptyMap
  /\ suspended_sessions = EmptyMap
  /\ prev_players = {}
  /\ players = <<>>
  /\ previous_online_count = <<>>
  /\ is_first_iteration = TRUE
  /\ recovery = "pending"
  /\ sessions = {}
  /\ online = <<>>
  /\ restarts = 0
  /\ closed = {}
  /\ trace = Ev("boot", "none", "none")
  /\ PipeIdle
  /\ OthersIdle

\* Time passes while collect_players awaits a page or sleeps.
Tick ==
  /\ players_pc \in {"first", "page"}
  /\ wall < MaxWall
  /\ wall' = wall + 1
  /\ UNCHANGED <<engine, pipe, worlds_online_vars, main_vars, telegram_vars, players_table,
                 temp_table, players_pc, last_collection_time, snapshot_time,
                 page, total_pages, retry_attempt, requests, fetch_result, runs>>

\* select max(snapshot_time) from players, None when it raises; then the
\* choice between sleeping and collecting at once.
WeeklySelect ==
  /\ players_pc = "select"
  /\ \E readable \in BOOLEAN :
       last_collection_time' =
         IF readable /\ players_table # {}
         THEN <<Max({r.snapshot_time : r \in players_table})>>
         ELSE <<>>
  /\ players_pc' =
       IF last_collection_time' # <<>>
            /\ (last_collection_time'[1] + Week) - wall > 0
       THEN "sleep" ELSE "start"
  /\ UNCHANGED <<engine, pipe, worlds_online_vars, main_vars, telegram_vars, wall,
                 players_table, temp_table, snapshot_time, page, total_pages,
                 retry_attempt, requests, fetch_result, runs>>

\* with get_connection(db_path) raises after its retries: nothing catches it.
WeeklyConnectFails ==
  /\ players_pc = "select"
  /\ players_pc' = "raised"
  /\ UNCHANGED <<engine, pipe, worlds_online_vars, main_vars, telegram_vars, wall,
                 players_table, temp_table, last_collection_time, snapshot_time,
                 page, total_pages, retry_attempt, requests, fetch_result, runs>>

\* await trio.sleep(wait_for)
\* (WeeklySleepSkipped: the wait is logged and not slept.)
WeeklySleepSkipped ==
  /\ players_pc = "sleep"
  /\ players_pc' = "start"
  /\ UNCHANGED <<engine, pipe, worlds_online_vars, main_vars, telegram_vars, wall,
                 players_table, temp_table, last_collection_time, snapshot_time,
                 page, total_pages, retry_attempt, requests, fetch_result, runs>>
WeeklySleep ==
  /\ players_pc = "sleep"
  /\ wall + ((last_collection_time[1] + Week) - wall) <= MaxWall
  /\ wall' = wall + ((last_collection_time[1] + Week) - wall)
  /\ players_pc' = "start"
  /\ UNCHANGED <<engine, pipe, worlds_online_vars, main_vars, telegram_vars, players_table,
                 temp_table, last_collection_time, snapshot_time, page,
                 total_pages, retry_attempt, requests, fetch_result, runs>>

\* collect_players: snapshot_time = datetime.now(); DELETE FROM players on
\* the temporary database.
\* (CollectStartKeeping: the temporary table is not emptied.)
CollectStartKeeping ==
  /\ players_pc = "start"
  /\ runs < MaxRuns
  /\ runs' = runs + 1
  /\ snapshot_time' = wall
  /\ page' = 1
  /\ total_pages' = 0
  /\ players_pc' = "first"
  /\ UNCHANGED <<engine, pipe, worlds_online_vars, main_vars, telegram_vars, wall,
                 players_table, temp_table, last_collection_time,
                 retry_attempt, requests, fetch_result>>
CollectStart ==
  /\ players_pc = "start"
  /\ runs < MaxRuns
  /\ runs' = runs + 1
  /\ snapshot_time' = wall
  /\ temp_table' = {}
  /\ page' = 1
  /\ total_pages' = 0
  /\ players_pc' = "first"
  /\ UNCHANGED <<engine, pipe, worlds_online_vars, main_vars, telegram_vars, wall,
                 players_table, last_collection_time, retry_attempt, requests,
                 fetch_result>>

\* Page 1 arrives and goes into the temporary table; the loop over the other
\* pages follows, or the transfer when there is one page.
FetchFirstPage ==
  /\ players_pc = "first"
  /\ \E last_page \in 1..MaxPages :
       /\ total_pages' = last_page
       /\ IF last_page >= 2
          THEN players_pc' = "page" /\ page' = 2 /\ retry_attempt' = 1
          ELSE players_pc' = "transfer" /\ UNCHANGED <<page, retry_attempt>>
  /\ temp_table' = temp_table \cup {PlayerRow(snapshot_time, 1, runs)}
  /\ UNCHANGED <<engine, pipe, worlds_online_vars, main_vars, telegram_vars, wall,
                 players_table, last_collection_time, snapshot_time, requests,
                 fetch_result, runs>>

\* _fetch_first_page raises (no retry there): collect_players raises, and
\* weekly_players_collection logs 'players_collection_failed' and loops.
FetchFirstPageFails ==
  /\ players_pc = "first"
  /\ players_pc' = "select"
  /\ UNCHANGED <<engine, pipe, worlds_online_vars, main_vars, telegram_vars, wall,
                 players_table, temp_table, last_collection_time, snapshot_time,
                 page, total_pages, retry_attempt, requests, fetch_result, runs>>

\* _fetch_players_page: the request of this attempt succeeds; the page goes
\* into the temporary table.
FetchPageOk ==
  /\ players_pc = "page"
  /\ requests' = retry_attempt
  /\ fetch_result' = "returned"
  /\ temp_table' = temp_table \cup {PlayerRow(snapshot_time, page, runs)}
  /\ IF page < total_pages
     THEN page' = page + 1 /\ retry_attempt' = 1 /\ UNCHANGED players_pc
     ELSE players_pc' = "transfer" /\ retry_attempt' = 0 /\ UNCHANGED page
  /\ UNCHANGED <<engine, pipe, worlds_online_vars, main_vars, telegram_vars, wall,
                 players_table, last_collection_time, snapshot_time,
                 total_pages, runs>>

\* The request of this attempt fails and a delay is found (Retry-After of a
\* 429, retry_delay otherwise): sleep and go on; after the last attempt the
\* for-else raises TimeoutError, which ends collect_players.
FetchPageRetry ==
  /\ players_pc = "page"
  /\ requests' = retry_attempt
  /\ IF retry_attempt < max_retry_attempts
     THEN /\ retry_attempt' = retry_attempt + 1
          /\ fetch_result' = "none"
          /\ UNCHANGED players_pc
     ELSE /\ retry_attempt' = 0
          /\ fetch_result' = "TimeoutError"
          /\ players_pc' = "select"
  /\ UNCHANGED <<engine, pipe, worlds_online_vars, main_vars, telegram_vars, wall,
                 players_table, temp_table, last_collection_time, snapshot_time,
                 page, total_pages, runs>>

\* The request is answered 429 without a Retry-After header:
\* int(r.headers['Retry-After']) raises KeyError inside the except clause.
FetchPageNoRetryAfter ==
  /\ players_pc = "page"
  /\ requests' = retry_attempt
  /\ retry_attempt' = 0
  /\ fetch_result' = "KeyError"
  /\ players_pc' = "select"
  /\ UNCHANGED <<engine, pipe, worlds_online_vars, main_vars, telegram_vars, wall,
                 players_table, temp_table, last_collection_time, snapshot_time,
                 page, total_pages, runs>>

\* ATTACH; INSERT INTO players SELECT * FROM temp_db.players; COUNT; DETACH
Transfer ==
  /\ players_pc = "transfer"
  /\ players_table' = players_table \cup temp_table
  /\ players_pc' = "select"
  /\ UNCHANGED <<engine, pipe, worlds_online_vars, main_vars, telegram_vars, wall, temp_table,
                 last_collection_time, snapshot_time, page, total_pages,
                 retry_attempt, requests, fetch_result, runs>>

\* The transfer block raises, before the INSERT or after it.
TransferFails ==
  /\ players_pc = "transfer"
  /\ \/ UNCHANGED players_table
     \/ players_table' = players_table \cup temp_table
  /\ players_pc' = "select"
  /\ UNCHANGED <<engine, pipe, worlds_online_vars, main_vars, telegram_vars, wall, temp_table,
                 last_collection_time, snapshot_time, page, total_pages,
                 retry_attempt, requests, fetch_result, runs>>

NextPlayers ==
  \/ Tick
  \/ WeeklySelect
  \/ WeeklyConnectFails
  \/ WeeklySleep
  \/ CollectStart
  \/ FetchFirstPage
  \/ FetchFirstPageFails
  \/ FetchPageOk
  \/ FetchPageRetry
  \/ FetchPageNoRetryAfter
  \/ Transfer
  \/ TransferFails

SpecPlayers == InitPlayers /\ [][NextPlayers]_vars

\* -------------------------------------------------- send_telegram_message
\* Calls of send_telegram_message, one at a time, with the bot set by
\* init_telegram_bot or reset to None between them.
MaxCalls == 2

initial_retry_delay == 2

\* The record of a finished call: whether _bot was set when it was made, the
\* send attempts it made, the delays it slept, and how it ended.
Outcome(bot, attempts, delays, result) ==
  [bot |-> bot, attempts |-> attempts, waited |-> delays, result |-> result]

InitTelegram ==
  /\ kind = "telegram"
  /\ tzOffset = 0
  /\ pc = "recover"
  /\ clock = 0
  /\ active_sessions = EmptyMap
  /\ suspended_sessions = EmptyMap
  /\ prev_players = {}
  /\ players = <<>>
  /\ previous_online_count = <<>>
  /\ is_first_iteration = TRUE
  /\ recovery = "pending"
  /\ sessions = {}
  /\ online = <<>>
  /\ restarts = 0
  /\ closed = {}
  /\ trace = Ev("boot", "none", "none")
  /\ PipeIdle
  /\ OthersIdle

\* _bot = None: init_telegram_bot failed, or shutdown_telegram_bot has run.
BotReset ==
  /\ send_pc = "idle"
  /\ _bot
  /\ _bot' = FALSE
  /\ UNCHANGED <<engine, pipe, worlds_online_vars, players_vars, telegram_vars,
                 task, main_pc, main_nursery_crashed, shutdowns>>

\* init_telegram_bot succeeds.
BotInit ==
  /\ send_pc = "idle"
  /\ ~_bot
  /\ _bot' = TRUE
  /\ UNCHANGED <<engine, pipe, worlds_online_vars, players_vars, telegram_vars,
                 task, main_pc, main_nursery_crashed, shutdowns>>

\* The call: RuntimeError at once when _bot is None, the retry loop otherwise.
SendCall ==
  /\ send_pc = "idle"
  /\ Len(outcomes) < MaxCalls
  /\ IF ~_bot
     THEN /\ outcomes' = Append(outcomes, Outcome(FALSE, 0, <<>>, "RuntimeError"))
          /\ UNCHANGED <<send_pc, send_retry_attempt, waited>>
     ELSE /\ send_pc' = "sending"
          /\ send_retry_attempt' = 1
          /\ waited' = <<>>
          /\ UNCHANGED outcomes
  /\ UNCHANGED <<engine, pipe, worlds_online_vars, main_vars, players_vars>>

\* _bot.send_message succeeds: log and return.
SendOk ==
  /\ send_pc = "sending"
  /\ outcomes' = Append(outcomes,
                        Outcome(TRUE, send_retry_attempt, waited, "returned"))
  /\ send_pc' = "idle"
  /\ send_retry_attempt' = 0
  /\ waited' = <<>>
  /\ UNCHANGED <<engine, pipe, worlds_online_vars, main_vars, players_vars>>

\* (SendFailsFlat: the delay does not grow.)
SendFailsFlat ==
  /\ send_pc = "sending"
  /\ LET slept == Append(waited, initial_retry_delay)
     IN  IF send_retry_attempt < max_retry_attempts
         THEN /\ send_retry_attempt' = send_retry_attempt + 1
              /\ waited' = slept
              /\ UNCHANGED <<send_pc, outcomes>>
         ELSE /\ outcomes' = Append(outcomes,
                               Outcome(TRUE, send_retry_attempt, slept,
                                       "RuntimeError"))
              /\ send_pc' = "idle"
              /\ send_retry_attempt' = 0
              /\ waited' = <<>>
  /\ UNCHANGED <<engine, pipe, worlds_online_vars, main_vars, players_vars>>

\* _bot.send_message raises (TelegramAPIError or any Exception): sleep
\* initial_retry_delay * 2 ** (retry_attempt - 1) and go on; after the last
\* attempt and its sleep, RuntimeError. (max_retry_attempts is 5 here as in
\* _fetch_players_page, telegram_utils.py 73.)
SendFails ==
  /\ send_pc = "sending"
  /\ LET delay_ == initial_retry_delay * (2 ^ (send_retry_attempt - 1))
         slept == Append(waited, delay_)
     IN  IF send_retry_attempt < max_retry_attempts
         THEN /\ send_retry_attempt' = send_retry_attempt + 1
              /\ waited' = slept
              /\ UNCHANGED <<send_pc, outcomes>>
         ELSE /\ outcomes' = Append(outcomes,
                               Outcome(TRUE, send_retry_attempt, slept,
                                       "RuntimeError"))
              /\ send_pc' = "idle"
              /\ send_retry_attempt' = 0
              /\ waited' = <<>>
  /\ UNCHANGED <<engine, pipe, worlds_online_vars, main_vars, players_vars>>

NextTelegram ==
  \/ BotReset
  \/ BotInit
  \/ SendCall
  \/ SendOk
  \/ SendFails

SpecTelegram == InitTelegram /\ [][NextTelegram]_vars

\* ================================================================= claims
\* A poll whose query answered and whose cycle ran to its end; the snapshot
\* it processed is prev_players'.
Processed ==
  pc = "query" /\ pc' = "sleep" /\ trace'.event = "cycle" /\ trace'.query = "ok"

\* The recovery step of a run, and the startup snapshot it read.
RecoveryStep ==
  \/ kind = "players" /\ pc = "recover" /\ recovery' = "ok"
  \/ kind = "worlds" /\ is_first_iteration /\ Processed

Starts(store, e) == {r.session_start : r \in RowsOf(store, e)}

\* C1: in both engines, after recovery and after every poll cycle, no entity
\* is a key of both active_sessions and suspended_sessions.
C1_NoDoubleCount ==
  Keys(active_sessions) \cap Keys(suspended_sessions) = {}

\* An entity was suspended by the last cycle while another stayed active.
C1_Witness ==
  /\ pc = "sleep"
  /\ trace.suspended # {}
  /\ trace.suspended \subseteq Keys(suspended_sessions)
  /\ Keys(active_sessions) # {}

\* C2: when an entity with an open interval disappears and reappears within
\* session_threshold, the reappearance inserts no row, the entity keeps the
\* rows it had, its interval keeps its start, and exactly one row of the
\* entity has an end_time of at least the reappearance poll's timestamp.
C2_Resumption ==
  [][\A e \in Entities :
       ( /\ Processed
         /\ e \in Keys(suspended_sessions)
         /\ e \in prev_players'
         /\ clock - suspended_sessions[e][2] <= session_threshold )
       => /\ e \notin trace'.started
          /\ Starts(sessions', e) = Starts(sessions, e)
          /\ e \in Keys(active_sessions')
          /\ active_sessions'[e] = suspended_sessions[e][1]
          /\ Cardinality({r \in RowsOf(sessions', e) :
                            r.session_end >= ToStored(clock)}) = 1]_vars

\* C3: an entity suspended at s and next observed present at t with
\* t - s > session_threshold gets a new row (e, t, t), is tracked with
\* start t, and its earlier rows are left as they were.
C3_LongAbsenceStartsNewInterval ==
  [][\A e \in Entities :
       ( /\ Processed
         /\ e \in Keys(suspended_sessions)
         /\ e \in prev_players'
         /\ clock - suspended_sessions[e][2] > session_threshold )
       => /\ e \in trace'.started
          /\ e \in Keys(active_sessions')
          /\ active_sessions'[e] = clock
          /\ Row(e, ToStored(clock), ToStored(clock)) \in sessions'
          /\ RowsOf(sessions, e) \subseteq sessions']_vars

\* C4: an entity A of the startup snapshot whose latest row (A, T0, T1) has
\* now - T1 < session_threshold is seeded as active_sessions[A] = T0, and
\* the first processed poll with A still present inserts no row for A.
C4_RecoveryContinuity ==
  [][\A e \in Entities :
       /\ ( /\ RecoveryStep
            /\ e \in Recoverable(sessions, prev_players', clock, session_threshold) )
          => /\ e \in Keys(active_sessions')
             /\ active_sessions'[e] \in LatestStarts(sessions, e)
       /\ ( /\ Processed
            /\ is_first_iteration
            /\ e \in prev_players'
            /\ \/ kind = "players" /\ recovery = "ok" /\ e \in Keys(active_sessions)
               \/ kind = "worlds"
                    /\ e \in Recoverable(sessions, prev_players', clock,
                                         session_threshold) )
          => e \notin trace'.started]_vars

\* C5: an entity of the startup snapshot with no recoverable interval is
\* left out of active_sessions by recovery, and the first processed poll in
\* which it is still present inserts (entity, now, now) and tracks it.
C5_UnrecoveredIsFreshConnection ==
  [][\A e \in Entities :
       /\ ( /\ kind = "players" /\ pc = "recover" /\ recovery' = "ok"
            /\ e \in prev_players'
            /\ e \notin Recoverable(sessions, prev_players', clock, session_threshold) )
          => e \notin Keys(active_sessions')
       /\ ( /\ Processed
            /\ is_first_iteration
            /\ e \in prev_players'
            /\ \/ kind = "players" /\ recovery = "ok" /\ e \in prev_players
                    /\ e \notin Keys(active_sessions)
               \/ kind = "worlds"
                    /\ e \notin Recoverable(sessions, prev_players', clock,
                                            session_threshold) )
          => /\ e \in trace'.started
             /\ e \in Keys(active_sessions')
             /\ active_sessions'[e] = clock
             /\ Row(e, ToStored(clock), ToStored(clock)) \in sessions']_vars

\* C6: a cycle of collect_sessions whose presence query raises leaves
\* active_sessions, suspended_sessions, prev_players, previous_online_count
\* and both tables unchanged, and the next query comes after the delay.
C6_QueryErrorSkipsCycle ==
  [][/\ (pc = "query" /\ kind = "players" /\ trace'.query = "error")
        => /\ pc' = "sleep"
           /\ UNCHANGED <<active_sessions, suspended_sessions, prev_players,
                          previous_online_count, sessions, online>>
     /\ (pc = "sleep" /\ kind = "players" /\ trace.query = "error"
           /\ pc' = "query")
        => clock' = clock + delay]_vars

\* A failed query in a cycle with an active and a suspended entity.
C6_Witness ==
  /\ kind = "players" /\ pc = "sleep"
  /\ trace.query = "error"
  /\ Keys(active_sessions) # {}
  /\ Keys(suspended_sessions) # {}

\* C7: a cycle of collect_sessions whose presence query times out changes
\* neither active_sessions nor suspended_sessions and writes nothing to the
\* sessions table.
C7_TimeoutAbandonsCycle ==
  [][(pc = "query" /\ trace'.query = "timeout" /\ pc' = "sleep")
       => UNCHANGED <<active_sessions, suspended_sessions, sessions>>]_vars

\* C8: after a timed-out presence query, the first cycle included, the loop
\* of collect_sessions has not ended with an exception.
C8_TimeoutLoopContinues ==
  trace.query = "timeout" => pc # "crashed"

\* C9: a store write that fails during a poll cycle does not end the poll
\* loop.
C9_WriteFailureNotFatal ==
  trace.raised = "write" => pc # "crashed"

\* C10: when the recovery query fails the engine goes on with an empty
\* active_sessions, and the first successful poll inserts a row for every
\* entity present.
C10_RecoveryFailureStartsCold ==
  [][/\ (recovery = "pending" /\ recovery' = "failed")
        => pc' # "crashed" /\ Keys(active_sessions') = {}
     /\ (Processed /\ is_first_iteration /\ recovery = "failed")
        => /\ trace'.started = prev_players'
           /\ \A e \in prev_players' :
                Row(e, ToStored(clock), ToStored(clock)) \in sessions']_vars

\* A cycle whose body ran to its end (the query answered or timed out).
CycleDone == pc = "query" /\ pc' = "sleep" /\ trace'.event = "cycle"

\* The run holds nothing about e: e is in neither map and was absent from
\* the last snapshot the run processed.
Untracked(e) ==
  /\ pc \in {"query", "sleep"}
  /\ ~is_first_iteration
  /\ e \notin Keys(active_sessions)
  /\ e \notin Keys(suspended_sessions)
  /\ e \notin prev_players

\* From expiry until the entity reappears no row of it is written; the
\* cycle of the reappearance inserts the row (e, now, now) with a start
\* later than every start the entity has, and leaves the older rows.
ExpiredStaysClosed(e) ==
  /\ (CycleDone /\ e \in trace'.ended)
       => /\ RowsOf(sessions', e) = RowsOf(sessions, e)
          /\ e \notin Keys(active_sessions') \cup Keys(suspended_sessions')
          /\ e \notin prev_players'
  /\ (Untracked(e) /\ restarts' = restarts)
       => IF CycleDone /\ e \in prev_players'
          THEN /\ e \in trace'.started
               /\ active_sessions'[e] = clock
               /\ RowsOf(sessions', e) =
                    RowsOf(sessions, e) \cup {Row(e, ToStored(clock), ToStored(clock))}
               /\ \A r \in RowsOf(sessions, e) : r.session_start < ToStored(clock)
          ELSE IF pc' = "crashed"
          THEN /\ RowsOf(sessions, e) \subseteq sessions'
               /\ RowsOf(sessions', e) \subseteq
                    RowsOf(sessions, e) \cup {Row(e, ToStored(clock), ToStored(clock))}
          ELSE /\ RowsOf(sessions', e) = RowsOf(sessions, e)
               /\ e \notin Keys(active_sessions') \cup Keys(suspended_sessions')
               /\ e \notin prev_players'

RowKeys(store) == {<<r.name, r.session_start>> : r \in store}

\* C12: no step changes the start_time of an existing row: every key
\* (entity, start_time) of the table stays, and a row a step leaves that was
\* not there before is either an existing row with end_time moved to now or
\* a new row (entity, now, now).
C12_StartTimeFrozen ==
  [][/\ RowKeys(sessions) \subseteq RowKeys(sessions')
     /\ \A q \in sessions' \ sessions :
          /\ q.session_end = ToStored(clock)
          /\ \/ <<q.name, q.session_start>> \in RowKeys(sessions)
             \/ q.session_start = ToStored(clock)]_vars

\* A cycle has moved the end_time of a row inserted by an earlier cycle.
C12_Witness ==
  /\ pc = "sleep"
  /\ \E r \in sessions :
       /\ r.name \in Keys(active_sessions)
       /\ r.session_start = ToStored(active_sessions[r.name])
       /\ r.session_start < r.session_end
       /\ r.session_end = ToStored(clock)

\* C13: the clock never going back, every row of the table has
\* start_time <= end_time, the rows recovery re-opened included.
C13_StartNotAfterEnd ==
  \A r \in sessions : r.session_start <= r.session_end

\* A row of an earlier run, re-opened by recovery, has been extended by a
\* cycle of this run.
C13_Witness ==
  /\ pc = "sleep"
  /\ restarts > 0
  /\ recovery = "ok"
  /\ trace.started = {}
  /\ \E r \in sessions :
       /\ r.name \in Keys(active_sessions)
       /\ r.session_start = ToStored(active_sessions[r.name])
       /\ r.session_start < r.session_end
       /\ r.session_end = ToStored(clock)

\* C14: the clock never going back, no write lowers the end_time of a row:
\* the row a step leaves under a key (entity, start_time) ends no earlier
\* than the row that was there, across suspension and resumption too.
C14_EndTimeMonotonic ==
  [][\A r \in sessions : \A q \in sessions' :
       (q.name = r.name /\ q.session_start = r.session_start)
         => q.session_end >= r.session_end]_vars

\* An entity resumed from suspension by the last cycle, its row extended
\* past the gap to this poll's timestamp.
C14_Witness ==
  /\ pc = "sleep"
  /\ \E r \in sessions :
       /\ r.name \in trace.renewed
       /\ r.name \in Keys(active_sessions)
       /\ r.session_start = ToStored(active_sessions[r.name])
       /\ r.session_end = ToStored(clock)
       /\ r.session_end - r.session_start > delay

\* C15: within one run of collect_sessions, a successful poll inserts the
\* row (count, now) into online exactly when the size of its snapshot
\* differs from the count of the row this run inserted last, and always at
\* the run's first successful poll; so two rows inserted one after the
\* other by a run never carry the same count.
C15_OnlineSampledOnChange ==
  [][(kind = "players" /\ Processed)
       => LET count == Cardinality(prev_players')
              last == IF is_first_iteration THEN <<>> ELSE <<online[1]>>
          IN /\ trace'.sampled <=> (<<count>> # last)
             /\ trace'.sampled => online' = <<count, ToStored(clock)>>
             /\ ~trace'.sampled => online' = online
             /\ (trace'.sampled /\ ~is_first_iteration) => online'[1] # online[1]]_vars

\* A successful poll with as many players as the last inserted row counts
\* has inserted nothing: the last row is from an earlier poll.
C15_Witness ==
  /\ kind = "players"
  /\ pc = "sleep"
  /\ trace.event = "cycle" /\ trace.query = "ok"
  /\ ~trace.sampled
  /\ online # <<>>
  /\ online[1] = Cardinality(prev_players)
  /\ online[1] > 0
  /\ online[2] < ToStored(clock)

\* C16: an entity in the snapshot of a processed poll at time t that is in
\* neither active_sessions nor suspended_sessions (for the first cycle of
\* the world engine: after the recovery that cycle runs) and was not in the
\* previous snapshot gets exactly one row (entity, t, t), and
\* active_sessions[entity] = t.
C16_NewEntityStartsInterval ==
  [][\A e \in Entities :
       ( /\ Processed
         /\ e \in prev_players'
         /\ e \notin prev_players
         /\ e \notin Keys(active_sessions) \cup Keys(suspended_sessions)
         /\ (kind = "worlds" /\ is_first_iteration)
              => e \notin Recoverable(sessions, prev_players', clock, session_threshold) )
       => /\ e \in trace'.started
          /\ Row(e, ToStored(clock), ToStored(clock)) \in sessions'
          /\ RowsOf(sessions', e) =
               RowsOf(sessions, e) \cup {Row(e, ToStored(clock), ToStored(clock))}
          /\ e \in Keys(active_sessions')
          /\ active_sessions'[e] = clock]_vars

\* An entity with an earlier, closed row has been given a second row that
\* starts and ends at this poll, and is tracked from this poll on.
C16_Witness ==
  /\ pc = "sleep"
  /\ trace.query = "ok"
  /\ \E e \in trace.started :
       /\ Row(e, ToStored(clock), ToStored(clock)) \in sessions
       /\ e \in Keys(active_sessions)
       /\ active_sessions[e] = clock
       /\ Cardinality(RowsOf(sessions, e)) = 2

\* The rows of e under the start the engine tracks for it.
TrackedRows(store, e, start) ==
  {r \in RowsOf(store, e) : r.session_start = ToStored(start)}

C18_ExpiredRowFinal ==
  \A c \in closed : c.row \in sessions

\* The first poll with a timestamp of at least t seconds has been processed.
PolledSince(t) ==
  IF pc = "sleep" THEN Seconds(clock) >= t ELSE Seconds(clock - delay) >= t

\* C19 (as amended): Alice, resumed at 180 and absent from 240 on, is
\* suspended again at 240 with her start of 60, stays in suspended_sessions
\* up to the poll of 2040, and is dropped at the first poll with
\* t > 240 + 1800, the poll of 2100; her row is (Alice, 60, 180) from the
\* poll of 180 on.
C19_AliceDroppedAt2100 ==
  /\ (PolledSince(240) /\ ~PolledSince(2041))
       => /\ "a" \in Keys(suspended_sessions)
          /\ Seconds(suspended_sessions["a"][1]) = 60
          /\ Seconds(suspended_sessions["a"][2]) = 240
  /\ PolledSince(2041)
       => "a" \notin Keys(suspended_sessions) \cup Keys(active_sessions)
  /\ PolledSince(180)
       => \A r \in RowsOf(sessions, "a") :
            Seconds(r.session_start) = 60 /\ Seconds(r.session_end) = 180
  /\ PolledSince(60) => Cardinality(RowsOf(sessions, "a")) = 1

\* The poll of 2100 has dropped Alice and left her row (Alice, 60, 180).
C19_Witness ==
  /\ pc = "sleep"
  /\ Seconds(clock) = 2100
  /\ trace.ended = {"a"}
  /\ RowsOf(sessions, "a") = {Row("a", ToStored(1), ToStored(3))}
  /\ "b" \in Keys(active_sessions)

\* C19 (as stated): Alice is dropped from suspended_sessions at the first
\* poll with t >= 1921, and her row remains (Alice, 60, e), e the last
\* end_time written before expiry.
C19_AliceDroppedAt1921 ==
  /\ PolledSince(1921) => "a" \notin Keys(suspended_sessions)
  /\ PolledSince(180)
       => \A r \in RowsOf(sessions, "a") :
            Seconds(r.session_start) = 60 /\ Seconds(r.session_end) = 180

\* C20: an entity whose absence lasts less than session_threshold continues
\* its interval when it reappears, restarts and recoveries during the
\* absence included: a processed poll inserts no row for an entity that the
\* run found absent (it was not in the previous snapshot, the startup
\* snapshot for the first poll) and that a row shows present at most
\* session_threshold ago. (Stated for a host at UTC and a run whose
\* recovery succeeded.)
C20_ShortAbsenceContinues ==
  [][\A e \in Entities :
       ( /\ Processed
         /\ tzOffset = 0
         /\ recovery' = "ok"
         /\ kind = "worlds" => ~is_first_iteration
         /\ e \in prev_players'
         /\ e \notin prev_players
         /\ \E r \in RowsOf(sessions, e) :
              r.session_end >= ToStored(clock - session_threshold) )
       => e \notin trace'.started]_vars

\* C21: poll cycles of one kind never overlap and are processed in issue
\* order. For the worlds: whenever _fetch_worlds_data has a request under
\* way, _collect_world_sessions has finished the loop body for every payload
\* fetched so far, whatever the delay, and it has processed the payloads in
\* the order they were fetched.
C21_PollCyclesDoNotOverlap ==
  /\ handled["sessions"] = [i \in 1..Len(handled["sessions"]) |-> i]
  /\ fetch_pc = "await_get"
       => /\ item["sessions"] = 0
          /\ receiving["sessions"] \in {"start", "receive"}
          /\ Len(handled["sessions"]) = fetched

\* With delay = 0 the third request is under way and the sessions consumer
\* has processed both payloads fetched before it.
C21_Witness ==
  /\ fetch_delay = 0
  /\ fetch_pc = "await_get"
  /\ fetches = 3
  /\ handled["sessions"] = <<1, 2>>

\* C22: in each engine the recovery runs exactly once per process run, and
\* before any suspension, resumption, insert or end_time update of the run:
\* only a run that has not recovered yet recovers, and as long as a run has
\* not recovered its maps are empty and no step of it writes the table.
C22_RecoveryOnceAndFirst ==
  [][/\ recovery' # recovery
          => \/ recovery = "pending"
             \/ recovery' = "pending" /\ restarts' = restarts + 1
     /\ recovery' = "pending"
          => /\ sessions' = sessions
             /\ Keys(active_sessions') = {} /\ Keys(suspended_sessions') = {}
             /\ trace'.started = {} /\ trace'.renewed = {}
             /\ trace'.suspended = {} /\ trace'.ended = {}]_vars

\* A second run has recovered an interval and, in a later cycle, suspended
\* its entity.
C22_Witness ==
  /\ restarts > 0
  /\ recovery = "ok"
  /\ pc = "sleep"
  /\ trace.suspended # {}
  /\ \E e \in trace.suspended :
       /\ e \in Keys(suspended_sessions)
       /\ suspended_sessions[e][1] < suspended_sessions[e][2] - delay

\* C23: the batched end_time update is idempotent: run twice with the same
\* active_sessions and the same now, it leaves the table as one run does.
\* Checked on every table and map the engines reach, for every now from the
\* current clock on.
C23_UpdateIdempotent ==
  \A now \in clock..MaxTime :
    LET upd == Keys(active_sessions)
        once == UpdateRows(sessions, active_sessions, upd, now)
    IN UpdateRows(once, active_sessions, upd, now) = once

\* The next cycle's update has rows to advance: two tracked intervals whose
\* rows end before now, next to a row the update must leave alone.
C23_Witness ==
  /\ pc = "query"
  /\ Cardinality(Keys(active_sessions)) = 2
  /\ \A e \in Keys(active_sessions) :
       \E r \in sessions :
         /\ r = Row(e, ToStored(active_sessions[e]), r.session_end)
         /\ r.session_end < ToStored(clock)
  /\ UpdateRows(sessions, active_sessions, Keys(active_sessions), clock)
       # sessions
  /\ \E r \in sessions :
       /\ r.name \in Keys(active_sessions)
       /\ r.session_start # ToStored(active_sessions[r.name])

\* C24: in a cycle, an entity of the previous snapshot that is missing from
\* the current one is, when it is a key of active_sessions, removed from it
\* and added to suspended_sessions as (its unchanged start, now); when it is
\* not a key of active_sessions, neither map changes for it.
C24_DisconnectedSuspends ==
  [][CycleDone =>
       \A e \in disconnected(prev_players, prev_players') :
         IF e \in Keys(active_sessions)
           THEN /\ e \notin Keys(active_sessions')
                /\ e \in Keys(suspended_sessions')
                /\ suspended_sessions'[e] = <<active_sessions[e], clock>>
           ELSE /\ e \notin Keys(active_sessions')
                /\ e \in Keys(suspended_sessions')
                     <=> e \in Keys(suspended_sessions)
                /\ e \in Keys(suspended_sessions)
                     => suspended_sessions'[e] = suspended_sessions[e]]_vars

\* The last cycle suspended an interval that had lasted two polls or more,
\* and the other entity, absent too, is in neither map.
C24_Witness ==
  /\ pc = "sleep"
  /\ prev_players = {}
  /\ \E e \in trace.suspended :
       /\ suspended_sessions[e][2] = clock
       /\ suspended_sessions[e][1] + delay < clock
       /\ Keys(active_sessions) = {}
       /\ Keys(suspended_sessions) = {e}

\* C25: the expiry step of a cycle drops from suspended_sessions exactly the
\* entities with now - suspended_at > session_threshold, strictly: of the
\* entities suspended when the cycle begins and not resumed by it, those and
\* only those are gone from suspended_sessions (and from active_sessions)
\* after it, the others keep their entry; an entity whose absence equals
\* session_threshold stays, and an entity the cycle resumes gets its original
\* start.
C25_ExpiryStrictlyAfterThreshold ==
  [][CycleDone =>
       \A e \in Keys(suspended_sessions) :
         IF e \in trace'.renewed
           THEN /\ e \notin Keys(suspended_sessions')
                /\ active_sessions'[e] = suspended_sessions[e][1]
           ELSE IF clock - suspended_sessions[e][2] > session_threshold
             THEN /\ e \notin Keys(suspended_sessions')
                  /\ e \notin Keys(active_sessions')
                  /\ e \in trace'.ended
             ELSE /\ e \in Keys(suspended_sessions')
                  /\ suspended_sessions'[e] = suspended_sessions[e]
                  /\ e \notin trace'.ended]_vars

\* The last cycle dropped one entity and kept the other, whose absence is
\* session_threshold exactly.
C25_Witness ==
  /\ pc = "sleep"
  /\ trace.event = "cycle"
  /\ trace.ended # {}
  /\ \E e \in Keys(suspended_sessions) :
       /\ clock - suspended_sessions[e][2] = session_threshold
       /\ e \notin trace.ended
       /\ e \notin trace.suspended

\* C26: at the end of every processed cycle whose writes succeeded, every
\* entity e of active_sessions has a row keyed (e, active_sessions[e]) whose
\* end_time is the cycle's now; and at all times every entry of
\* active_sessions or suspended_sessions refers to an existing row.
C26_ActiveEntryHasCurrentRow ==
  /\ (pc = "sleep" /\ trace.event = "cycle" /\ trace.query = "ok")
       => \A e \in Keys(active_sessions) :
            Row(e, ToStored(active_sessions[e]), ToStored(clock)) \in sessions
  /\ \A e \in Keys(active_sessions) :
       ToStored(active_sessions[e]) \in Starts(sessions, e)
  /\ \A e \in Keys(suspended_sessions) :
       ToStored(suspended_sessions[e][1]) \in Starts(sessions, e)

\* C27: recovery seeds active_sessions with exactly the entities of the
\* startup snapshot that own a row whose end_time is strictly greater than
\* now - session_threshold, each mapped to the start_time of its row of
\* greatest end_time; no entity outside the startup snapshot is seeded, and
\* suspended_sessions is empty after recovery. (In the world engine the
\* entities the same iteration starts afresh are not seeded ones.)
C27_RecoverySeedsLatestStart ==
  [][RecoveryStep =>
       LET snapshot == prev_players'
           seeded == Keys(active_sessions') \ trace'.started
       IN /\ seeded =
               {e \in snapshot :
                  \E r \in RowsOf(sessions, e) :
                    r.session_end > ToStored(clock - session_threshold)}
          /\ \A e \in seeded :
               \E r \in RowsOf(sessions, e) :
                 /\ r.session_start = ToStored(active_sessions'[e])
                 /\ \A q \in RowsOf(sessions, e) : q.session_end <= r.session_end
          /\ Keys(suspended_sessions') = {}]_vars

\* C28: at the start of every poll cycle the cached previous snapshot
\* (prev_players / prev_worlds) is the key set of active_sessions and
\* shares no entity with the keys of suspended_sessions.
C28_PrevSnapshotIsActiveKeys ==
  pc = "query" =>
    /\ prev_players = Keys(active_sessions)
    /\ prev_players \cap Keys(suspended_sessions) = {}

C30_RecoveredStartRoundTrips ==
  [][/\ RecoveryStep =>
          \A e \in Keys(active_sessions') \ trace'.started :
            \E r \in RowsOf(sessions, e) :
              /\ active_sessions'[e] = FromStored(r.session_start, tzOffset)
              /\ ToStored(active_sessions'[e]) = r.session_start
     /\ (Processed /\ is_first_iteration) =>
          \A e \in prev_players' :
            ( \/ kind = "players" /\ recovery = "ok"
                   /\ e \in Keys(active_sessions)
              \/ kind = "worlds"
                   /\ e \in Keys(active_sessions') \ trace'.started )
            => \E r \in RowsOf(sessions', e) :
                 /\ r.session_start \in Starts(sessions, e)
                 /\ r.session_end = ToStored(clock)]_vars

\* The payloads consumer c has received: those its loop body has processed
\* and the one it holds.
Received(c) == Len(handled[c]) + (IF item[c] # 0 THEN 1 ELSE 0)

\* C31: every payload fetched is delivered exactly once to each consumer and
\* in fetch order (a consumer has received payloads 1..k, each once); the
\* online consumer receives a payload before the sessions consumer does; as
\* long as no task has raised, both consumers have received every payload
\* fetched once the fetcher is past its two sends, and the tasks are never
\* all blocked on the channels: with nothing runnable the fetcher waits for
\* its request or its timer.
C31_DeliveredOnceInOrder ==
  /\ \A c \in Consumers :
       /\ handled[c] = [i \in 1..Len(handled[c]) |-> i]
       /\ item[c] # 0 => item[c] = Len(handled[c]) + 1
  /\ Received("sessions") <= Received("online")
  /\ Received("online") <= fetched
  /\ Received("online") <= Received("sessions") + 1
  /\ ~Raised =>
       /\ fetch_pc \notin {"send_online", "sent_online", "send_sessions"}
            => \A c \in Consumers : Received(c) = fetched
       /\ fetch_pc \in {"sent_online", "send_sessions"}
            => Received("online") = fetched /\ Received("sessions") = fetched - 1
       /\ (batch = {} /\ runq = {}) => fetch_pc \in {"await_get", "sleeping"}

\* Three payloads were fetched and both loop bodies have processed all of
\* them, the fetcher not sleeping between its requests.
C31_Witness ==
  /\ ~Raised
  /\ fetch_delay = 0
  /\ fetched = 3
  /\ \A c \in Consumers : handled[c] = <<1, 2, 3>>

\* The entry of a payload that counts for the stripped name W: of the raw
\* entries of that name, the first with the most players.
Considered(worlds, W) ==
  LET named == {i \in 1..Len(worlds) : _strip_hex_codes(worlds[i].name) = W}
      most == {i \in named : \A j \in named : worlds[j].players <= worlds[i].players}
  IN {WorldData(worlds[i]) : i \in {k \in most : \A j \in most : k <= j}}

\* C32: for each payload the online consumer processes, a worlds_online row
\* is inserted for world W exactly when W is in the payload and its
\* (players, static, ssmp) differs from W's entry in the preceding payload,
\* a world absent from that payload differing; the row carries the entry
\* with the most players among the raw entries of the stripped name, and a
\* world that vanishes gets no row.
C32_RowOnChangeOnly ==
  [][(payloads' = payloads + 1 /\ online_pc' = "receive")
      => \A W \in {_strip_hex_codes(n) : n \in RawNames} :
           LET now_ == Considered(data', W)
               before == Considered(data, W)
               rows == {r \in worlds_online' : r.name = W}
           IN /\ rows # {} <=> (now_ # {} /\ now_ # before)
              /\ rows # {} =>
                   rows = {OnlineRow(W, d, payloads') : d \in now_}]_vars

\* The second payload lists one world twice, under a coloured and a plain
\* name, the later entry with more players; that entry equals the world's
\* entry of the first payload, and no row was inserted.
C32_Witness ==
  /\ payloads = 2
  /\ online_pc = "receive"
  /\ Len(data) = 2
  /\ data[1].name # data[2].name
  /\ Cardinality(DOMAIN previous_worlds) = 1
  /\ data[1].players < data[2].players
  /\ worlds_online = {}

\* C33: when a fetch of the worlds API fails, whatever the reason (transport
\* error, timeout, error status, undecodable body), the fetcher's next step
\* sends nothing to either consumer, leaves the session maps alone and goes
\* to its sleep of delay seconds to fetch again: it does not end.
C33_FetchFailureRetries ==
  [][( /\ ~Raised
       /\ fetch_pc \in {"respond_err", "respond_bad"}
       /\ fetch_pc' # fetch_pc )
      => /\ fetch_pc' \in {"sleeping", "get"}
         /\ UNCHANGED <<fetched, item, handled, receiving>>
         /\ UNCHANGED <<active_sessions, suspended_sessions>>]_vars

\* C34: when one of the tasks started by main raises, all its siblings are
\* cancelled, the failure is logged once as main_nursery_crashed, and
\* shutdown_telegram_bot runs exactly once before main returns; inside
\* collect_worlds a failure of one of its three tasks cancels the other two.
\* No task is cancelled without a failure, main leaves its nursery only when
\* every task has ended, and after a failure main does return.
C34_NurseryCrashShutsDown ==
  /\ [](/\ shutdowns <= 1 /\ main_nursery_crashed <= 1
        /\ \A t \in TopTasks \cup WorldsTasks :
             task[t] = "cancelled" =>
               \E u \in TopTasks \cup WorldsTasks : task[u] = "raised"
        /\ main_pc # "nursery" =>
             /\ \A t \in TopTasks \cup WorldsTasks : Ended(t)
             /\ main_nursery_crashed = 1
        /\ main_pc = "finally" => shutdowns = 0
        /\ main_pc = "returned" => shutdowns = 1 /\ ~_bot)
  /\ (\E t \in WorldsTasks : task[t] = "raised") ~> WorldsEnded
  /\ (\E t \in TopTasks \cup WorldsTasks : task[t] = "raised")
       ~> (main_pc = "returned")

\* main has returned after _fetch_worlds_data raised and every other task,
\* its two consumers first, was cancelled.
C34_Witness ==
  /\ main_pc = "returned"
  /\ task["_fetch_worlds_data"] = "raised"
  /\ \A t \in (TopTasks \cup WorldsTasks) \ {"_fetch_worlds_data"} :
       task[t] = "cancelled"
  /\ main_nursery_crashed = 1
  /\ shutdowns = 1

\* C35: collect_players changes the main players table only in its transfer
\* step, which comes after every page 1..total_pages of this collection is in
\* the temporary table; the rows added are exactly the temporary table's, all
\* fetched by this collection (the table was emptied at its start), so a
\* collection whose page fetch fails leaves the main table as it was and its
\* leftovers are never transferred.
C35_TransferAfterAllPages ==
  [][players_table' # players_table
       => /\ players_pc = "transfer"
          /\ players_table' = players_table \cup temp_table
          /\ \A r \in temp_table :
               r.run = runs /\ r.snapshot_time = snapshot_time
          /\ {r.page : r \in temp_table} = 1..total_pages]_vars

\* The first collection failed at page 2 with page 1 left in the temporary
\* table; the second one transferred its single page and nothing else.
C35_Witness ==
  /\ runs = 2
  /\ fetch_result = "TimeoutError"
  /\ players_pc = "select"
  /\ players_table = {PlayerRow(snapshot_time, 1, 2)}

\* C36: _fetch_players_page issues at most max_retry_attempts requests, and
\* ends with TimeoutError exactly when all max_retry_attempts requests failed.
C36_FetchPageRetries ==
  /\ requests <= max_retry_attempts
  /\ fetch_result = "returned" => requests >= 1
  /\ fetch_result = "TimeoutError" => requests = max_retry_attempts
  /\ (fetch_result \notin {"none", "returned"}
        /\ requests = max_retry_attempts)
       => fetch_result = "TimeoutError"

\* C38: weekly_players_collection starts collect_players only when no last
\* collection time was read (table empty or unreadable) or a week or more has
\* passed since the greatest snapshot_time stored; with no last collection
\* time it goes to the collection without sleeping; a failed collection takes
\* it back to the top of its loop.
C38_WeeklySpacing ==
  [][ /\ (players_pc = "start" /\ players_pc' = "first")
           => \/ last_collection_time = <<>>
              \/ wall - Max({r.snapshot_time : r \in players_table}) >= Week
      /\ (players_pc = "select" /\ players_pc' # "raised"
            /\ last_collection_time' = <<>>)
           => players_pc' \in {"select", "start"} /\ wall' = wall
      /\ (players_pc \in {"first", "page", "transfer"})
           => players_pc' \in {"first", "page", "transfer", "select"}
    ]_vars

\* The second collection has started, a week after the first one's
\* snapshot_time was read from the table.
C38_Witness ==
  /\ runs = 2
  /\ players_pc = "first"
  /\ last_collection_time # <<>>
  /\ players_table # {}
  /\ snapshot_time - Max({r.snapshot_time : r \in players_table}) >= Week

\* C37: every call of send_telegram_message makes at most max_retry_attempts
\* send attempts and sleeps 2 * 2^(k-1) after its k-th failed attempt; it
\* returns at its first successful attempt, raises RuntimeError after
\* max_retry_attempts failed attempts, and raises RuntimeError with no attempt
\* made when the bot is not initialised.
C37_SendRetriesWithBackoff ==
  /\ send_retry_attempt <= max_retry_attempts
  /\ \A k \in 1..Len(waited) : waited[k] = 2 * (2 ^ (k - 1))
  /\ Len(waited) = (IF send_pc = "sending" THEN send_retry_attempt - 1 ELSE 0)
  /\ \A i \in 1..Len(outcomes) :
       LET o == outcomes[i]
       IN  /\ o.attempts <= max_retry_attempts
           /\ \A k \in 1..Len(o.waited) : o.waited[k] = 2 * (2 ^ (k - 1))
           /\ ~o.bot => o.result = "RuntimeError" /\ o.attempts = 0
           /\ o.bot =>
                \/ /\ o.result = "returned"
                   /\ o.attempts >= 1
                   /\ Len(o.waited) = o.attempts - 1
                \/ /\ o.result = "RuntimeError"
                   /\ o.attempts = max_retry_attempts
                   /\ Len(o.waited) = max_retry_attempts

\* One call gave up after five failed attempts, having slept 2, 4, 8, 16 and
\* 32; the next one was made with the bot reset and raised at once.
C37_Witness ==
  /\ Len(outcomes) = 2
  /\ outcomes[1] = Outcome(TRUE, 5, <<2, 4, 8, 16, 32>>, "RuntimeError")
  /\ outcomes[2] = Outcome(FALSE, 0, <<>>, "RuntimeError")

====
